---- MODULE Spec2Model ----
(***************************************************************************)
(* Model of scripts/session_router.py: the task decomposition engine, the  *)
(* persisted session ledger and the three CLI entry points (interactive    *)
(* selection, --next, --last).  Strings are TLA+ strings; Python's None is *)
(* the empty tuple and a present optional value v is <<v>>.                *)
(***************************************************************************)
EXTENDS Integers, Sequences, FiniteSets, TLC

VARIABLES tasks,    \* the backlog, as TaskParser.parse_all_tasks returns it
          ledger,   \* the content of .github/session_state.json
          commits,  \* what git log shows, most recent commit subject first
          now,      \* the wall clock read by datetime.now()
          out,      \* what the last invocation of main() did
          running   \* the invocations under way, each with its SessionRouter

vars == <<tasks, ledger, commits, now, out, running>>

None == <<>>
Some(v) == <<v>>

\* ------------------------------------------------------------------------
\* Bounds of the model
\* ------------------------------------------------------------------------
MaxEst == 90          \* largest estimated_minutes drawn for a decomposed task
MaxCompleted == 5     \* cap on the length of completed_subtasks
MaxClock == 1         \* cap on the wall clock

\* ------------------------------------------------------------------------
\* Python string operations
\* ------------------------------------------------------------------------
\* the lower-case letter of each upper-case letter
LowerMap ==
    [A |-> "a", B |-> "b", C |-> "c", D |-> "d", E |-> "e", F |-> "f", G |-> "g",
     H |-> "h", I |-> "i", J |-> "j", K |-> "k", L |-> "l", M |-> "m", N |-> "n",
     O |-> "o", P |-> "p", Q |-> "q", R |-> "r", S |-> "s", T |-> "t", U |-> "u",
     V |-> "v", W |-> "w", X |-> "x", Y |-> "y", Z |-> "z"]

CharAt(s, i) == SubSeq(s, i, i)

LowerChar(c) == IF c \in DOMAIN LowerMap THEN LowerMap[c] ELSE c

RECURSIVE Lower(_)
\* str.lower()
Lower(s) == IF Len(s) = 0 THEN "" ELSE LowerChar(CharAt(s, 1)) \o Lower(SubSeq(s, 2, Len(s)))

RECURSIVE ReplaceSpaces(_)
\* str.replace(' ', '_')
ReplaceSpaces(s) ==
    IF Len(s) = 0 THEN ""
    ELSE (IF CharAt(s, 1) = " " THEN "_" ELSE CharAt(s, 1)) \o ReplaceSpaces(SubSeq(s, 2, Len(s)))

\* s[:n]
Prefix(s, n) == IF Len(s) <= n THEN s ELSE SubSeq(s, 1, n)

\* s[a-1:b], for strings and lists
Slice(s, a, b) == SubSeq(s, a, IF b > Len(s) THEN Len(s) ELSE b)

\* k in s, for strings
InStr(k, s) == \E i \in 0..(Len(s) - Len(k)) : SubSeq(s, i + 1, i + Len(k)) = k

\* x in lst, for lists
InList(x, lst) == \E i \in 1..Len(lst) : lst[i] = x

\* ------------------------------------------------------------------------
\* Data model
\* ------------------------------------------------------------------------
CRITICAL == 1
HIGH == 2
MEDIUM == 3
LOW == 4
DEFERRED == 5

NOT_STARTED == "Not Started"
IN_PROGRESS == "In Progress"
BLOCKED == "Blocked"
READY_FOR_REVIEW == "Ready for Review"
READY_FOR_DEPLOYMENT == "Ready for Deployment"
COMPLETE == "Complete"

CLAUDE_CODE == "Claude Code"
CODEX == "Codex"
CHATGPT == "ChatGPT"
PERPLEXITY == "Perplexity"

Subtask(id, description, agent, estimated_minutes, dependencies, parallel_ok) ==
    [id |-> id, description |-> description, agent |-> agent,
     estimated_minutes |-> estimated_minutes, dependencies |-> dependencies,
     parallel_ok |-> parallel_ok, status |-> NOT_STARTED, prompt |-> ""]

\* SessionState()
SessionState ==
    [last_task_id |-> None, last_subtask_id |-> None, last_agent |-> None,
     last_updated |-> "", completed_subtasks |-> <<>>]

\* the Task that parse_tasks_file builds for one "###" section
ParsedTask(project, name, status, priority, estimated_minutes, agent) ==
    [id |-> project \o "_" \o Prefix(ReplaceSpaces(Lower(name)), 30),
     name |-> name, project |-> project, status |-> status, priority |-> priority,
     estimated_minutes |-> estimated_minutes, agent |-> agent,
     description |-> "", context_files |-> <<>>,
     blocks_tasks |-> <<>>, blocked_by |-> <<>>]

\* ------------------------------------------------------------------------
\* int(n * d) for a non-negative int n and a float literal d: the product
\* is rounded to the nearest binary64 (ties to even) and then truncated.
\* A literal is its 53-bit significand m, as three 18-bit limbs (least
\* significant first), and the exponent k with d = m / 2^k.
\* ------------------------------------------------------------------------
Float07 == [limbs |-> <<157286, 104857, 91750>>, k |-> 53]
Float04 == [limbs |-> <<104858, 157286, 104857>>, k |-> 54]
Float02 == [limbs |-> <<104858, 157286, 104857>>, k |-> 55]
Float03 == [limbs |-> <<209715, 52428, 78643>>, k |-> 54]

RECURSIVE Pow2(_)
Pow2(n) == IF n = 0 THEN 1 ELSE 2 * Pow2(n - 1)

RECURSIVE BitLen(_)
BitLen(x) == IF x = 0 THEN 0 ELSE 1 + BitLen(x \div 2)

LimbBase == Pow2(18)

IntOfProduct(n, d) ==
    IF n = 0 THEN 0
    ELSE
    LET t0 == n * d.limbs[1]
        p0 == t0 % LimbBase
        t1 == n * d.limbs[2] + (t0 \div LimbBase)
        p1 == t1 % LimbBase
        hi == n * d.limbs[3] + (t1 \div LimbBase)   \* exact product \div 2^36
        s  == BitLen(hi) - 17                        \* bits below the 53 kept
        r  == p0 % Pow2(s)
        qodd == (p0 \div Pow2(s)) % 2 = 1
        up == s >= 1 /\ (2 * r > Pow2(s) \/ (2 * r = Pow2(s) /\ qodd))
        q0 == p0 - r + (IF up THEN Pow2(s) ELSE 0)
        q1 == p1 + (q0 \div LimbBase)
        qhi == hi + (q1 \div LimbBase)               \* rounded product \div 2^36
    IN  qhi \div Pow2(d.k - 36)

\* ------------------------------------------------------------------------
\* TaskDecomposer
\* ------------------------------------------------------------------------
\* pattern 1 with the implement duration clamped at zero
Pattern1Clamped(task) ==
    <<Subtask(task.id \o "_plan", "Plan implementation for: " \o task.name,
              CHATGPT, 10, <<>>, FALSE),
      Subtask(task.id \o "_implement", "Implement: " \o task.name,
              task.agent,
              IF task.estimated_minutes < 30 THEN 0 ELSE task.estimated_minutes - 30,
              <<task.id \o "_plan">>, FALSE),
      Subtask(task.id \o "_review", "Review implementation: " \o task.name,
              CODEX, 10, <<task.id \o "_implement">>, FALSE),
      Subtask(task.id \o "_test", "Test and validate: " \o task.name,
              CLAUDE_CODE, 10, <<task.id \o "_review">>, FALSE)>>

Pattern1(task) ==
    <<Subtask(task.id \o "_plan", "Plan implementation for: " \o task.name,
              CHATGPT, 10, <<>>, FALSE),
      Subtask(task.id \o "_implement", "Implement: " \o task.name,
              task.agent, task.estimated_minutes - 30, <<task.id \o "_plan">>, FALSE),
      Subtask(task.id \o "_review", "Review implementation: " \o task.name,
              CODEX, 10, <<task.id \o "_implement">>, FALSE),
      Subtask(task.id \o "_test", "Test and validate: " \o task.name,
              CLAUDE_CODE, 10, <<task.id \o "_review">>, FALSE)>>

Pattern2(task) ==
    <<Subtask(task.id \o "_research", "Research: " \o task.name,
              PERPLEXITY, task.estimated_minutes \div 3, <<>>, TRUE),
      Subtask(task.id \o "_document", "Document findings: " \o task.name,
              CODEX, task.estimated_minutes \div 3, <<task.id \o "_research">>, FALSE),
      Subtask(task.id \o "_review", "Review documentation: " \o task.name,
              CHATGPT, task.estimated_minutes \div 3, <<task.id \o "_document">>, FALSE)>>

\* pattern 3 with the test stage waiting for the review, not the validation
Pattern3TestAfterReview(task) ==
    <<Subtask(task.id \o "_yaml", "Draft YAML for: " \o task.name,
              CODEX, IntOfProduct(task.estimated_minutes, Float04), <<>>, FALSE),
      Subtask(task.id \o "_review", "Review YAML structure and conventions: " \o task.name,
              CHATGPT, IntOfProduct(task.estimated_minutes, Float02),
              <<task.id \o "_yaml">>, FALSE),
      Subtask(task.id \o "_validate", "Validate syntax and deploy: " \o task.name,
              CLAUDE_CODE, IntOfProduct(task.estimated_minutes, Float02),
              <<task.id \o "_review">>, FALSE),
      Subtask(task.id \o "_test", "Test automation on server: " \o task.name,
              CLAUDE_CODE, IntOfProduct(task.estimated_minutes, Float02),
              <<task.id \o "_review">>, FALSE)>>

Pattern3(task) ==
    <<Subtask(task.id \o "_yaml", "Draft YAML for: " \o task.name,
              CODEX, IntOfProduct(task.estimated_minutes, Float04), <<>>, FALSE),
      Subtask(task.id \o "_review", "Review YAML structure and conventions: " \o task.name,
              CHATGPT, IntOfProduct(task.estimated_minutes, Float02),
              <<task.id \o "_yaml">>, FALSE),
      Subtask(task.id \o "_validate", "Validate syntax and deploy: " \o task.name,
              CLAUDE_CODE, IntOfProduct(task.estimated_minutes, Float02),
              <<task.id \o "_review">>, FALSE),
      Subtask(task.id \o "_test", "Test automation on server: " \o task.name,
              CLAUDE_CODE, IntOfProduct(task.estimated_minutes, Float02),
              <<task.id \o "_validate">>, FALSE)>>

\* pattern 4 with the fix stage waiting for its own verification
Pattern4FixAfterVerify(task) ==
    <<Subtask(task.id \o "_fix", "Fix/cleanup: " \o task.name,
              task.agent, IntOfProduct(task.estimated_minutes, Float07),
              <<task.id \o "_verify">>, FALSE),
      Subtask(task.id \o "_verify", "Verify fix: " \o task.name,
              CLAUDE_CODE, IntOfProduct(task.estimated_minutes, Float03),
              <<task.id \o "_fix">>, FALSE)>>

Pattern4(task) ==
    <<Subtask(task.id \o "_fix", "Fix/cleanup: " \o task.name,
              task.agent, IntOfProduct(task.estimated_minutes, Float07), <<>>, FALSE),
      Subtask(task.id \o "_verify", "Verify fix: " \o task.name,
              CLAUDE_CODE, IntOfProduct(task.estimated_minutes, Float03),
              <<task.id \o "_fix">>, FALSE)>>

PatternDefault(task) ==
    <<Subtask(task.id \o "_complete", task.name,
              task.agent, task.estimated_minutes, <<>>, FALSE)>>

\* the patterns with the bug-fix test ahead of the project test
decompose_task_fix_first(task) ==
    LET name == Lower(task.name) IN
    IF InStr("implement", name) \/ InStr("create", name) THEN Pattern1(task)
    ELSE IF InStr("document", name) \/ InStr("research", name) THEN Pattern2(task)
    ELSE IF InStr("fix", name) \/ InStr("cleanup", name) \/ InStr("refactor", name)
         THEN Pattern4(task)
    ELSE IF task.project = "home-assistant-config" THEN Pattern3(task)
    ELSE PatternDefault(task)

\* a task already In Progress resumes after its first stage
decompose_task_by_status(task) ==
    LET name == Lower(task.name)
        chain == IF InStr("implement", name) \/ InStr("create", name) THEN Pattern1(task)
                 ELSE IF InStr("document", name) \/ InStr("research", name)
                      THEN Pattern2(task)
                 ELSE IF task.project = "home-assistant-config" THEN Pattern3(task)
                 ELSE IF InStr("fix", name) \/ InStr("cleanup", name)
                         \/ InStr("refactor", name)
                      THEN Pattern4(task)
                 ELSE PatternDefault(task)
    IN  IF task.status = IN_PROGRESS /\ Len(chain) > 1 THEN Tail(chain) ELSE chain

decompose_task(task) ==
    LET name == Lower(task.name) IN
    IF InStr("implement", name) \/ InStr("create", name) THEN Pattern1(task)
    ELSE IF InStr("document", name) \/ InStr("research", name) THEN Pattern2(task)
    ELSE IF task.project = "home-assistant-config" THEN Pattern3(task)
    ELSE IF InStr("fix", name) \/ InStr("cleanup", name) \/ InStr("refactor", name)
         THEN Pattern4(task)
    ELSE PatternDefault(task)

\* ------------------------------------------------------------------------
\* GitAnalyzer
\* ------------------------------------------------------------------------
RECURSIVE LStrip(_)
LStrip(s) == IF Len(s) > 0 /\ CharAt(s, 1) = " " THEN LStrip(SubSeq(s, 2, Len(s))) ELSE s

RECURSIVE RStrip(_)
RStrip(s) ==
    IF Len(s) > 0 /\ CharAt(s, Len(s)) = " " THEN RStrip(SubSeq(s, 1, Len(s) - 1)) ELSE s

\* str.strip()
Strip(s) == LStrip(RStrip(s))

\* s.split('|')[0]
FirstField(s) ==
    IF InStr("|", s)
    THEN SubSeq(s, 1, (CHOOSE i \in 1..Len(s) :
                          CharAt(s, i) = "|" /\ \A j \in 1..(i - 1) : CharAt(s, j) # "|") - 1)
    ELSE s

\* get_last_commit_info(): None when git prints nothing, else the message,
\* the field after the hash in "%H|%s|%an|%ar"
get_last_commit_info ==
    IF commits = <<>> THEN None ELSE Some([message |-> FirstField(commits[1])])

\* re.search(r'task:\s*(.+?)\s*-', message): group 1 of the leftmost match,
\* for a message in which "task:" is followed by a non-blank character: the
\* group runs from that character to the blanks before the next "-"
TaskMatch(message) ==
    LET Rest(p) == LStrip(SubSeq(message, p + 5, Len(message)))
        Dashes(rest) == {d \in 2..Len(rest) : CharAt(rest, d) = "-"}
        good == {p \in 1..Len(message) :
                    Slice(message, p, p + 4) = "task:" /\ Dashes(Rest(p)) # {}}
        first == CHOOSE p \in good : \A q \in good : p <= q
        dash == CHOOSE d \in Dashes(Rest(first)) : \A e \in Dashes(Rest(first)) : d <= e
    IN  IF good = {} THEN None
        ELSE Some(RStrip(SubSeq(Rest(first), 1, dash - 1)))

RECURSIVE InferFrom(_, _)
InferFrom(msgs, ts) ==
    IF msgs = <<>> THEN None
    ELSE LET m == TaskMatch(Lower(msgs[1]))
             task_name == Lower(Strip(m[1]))
             hits == {i \in 1..Len(ts) : \/ InStr(task_name, Lower(ts[i].name))
                                         \/ InStr(Lower(ts[i].name), task_name)}
         IN  IF m # None /\ hits # {}
             THEN Some(ts[CHOOSE i \in hits : \A j \in hits : i <= j].id)
             ELSE InferFrom(Tail(msgs), ts)

\* infer_last_task_from_commits(tasks), over get_recent_commits(5)
infer_last_task_from_commits(ts) == InferFrom(Slice(commits, 1, 5), ts)

\* ------------------------------------------------------------------------
\* PromptGenerator
\* ------------------------------------------------------------------------
\* _find_next_subtask(task, current_subtask), over task.subtasks
find_next_subtask(subtasks, current_subtask) ==
    LET idx == {i \in 1..Len(subtasks) : subtasks[i] = current_subtask}
        current_index == CHOOSE i \in idx : \A j \in idx : i <= j
    IN  IF idx # {} /\ current_index + 1 <= Len(subtasks)
        THEN Some(subtasks[current_index + 1])
        ELSE None

\* _get_completion_status(task, subtask)
get_completion_status(subtasks, subtask) ==
    LET next_subtask == find_next_subtask(subtasks, subtask)
    IN  IF next_subtask # None
        THEN "In Progress - Next: " \o next_subtask[1].agent
        ELSE "Complete - Ready for next task"

\* is_review of _get_task_specific_instructions and _generate_success_criteria
is_review(subtask) == InStr("review", subtask.id) \/ InStr("verify", subtask.id)

\* _get_task_specific_instructions(task, subtask): the template chosen and
\* the values it is filled with
get_task_specific_instructions(task, subtask) ==
    IF is_review(subtask) /\ subtask.agent = CODEX
        THEN <<"As Codex (Reviewer)", task.project>>
    ELSE IF is_review(subtask) /\ subtask.agent = CHATGPT
        THEN <<"As ChatGPT (Reviewer)">>
    ELSE IF is_review(subtask) /\ subtask.agent = CLAUDE_CODE
        THEN <<"As Claude Code (Validator)">>
    ELSE IF subtask.agent = CODEX
        THEN <<"As Codex", subtask.description, task.project>>
    ELSE IF subtask.agent = CLAUDE_CODE
        THEN <<"As Claude Code", subtask.description>>
    ELSE IF subtask.agent = CHATGPT
        THEN <<"As ChatGPT", subtask.description>>
    ELSE <<subtask.description, task.project>>

\* _generate_success_criteria(task, subtask): the items of the checklist
generate_success_criteria(task, subtask) ==
    IF is_review(subtask)
    THEN <<"Reviewed previous agent's work", "Verified against project conventions",
           "Checked for logic errors or edge cases", "Tested functionality">>
         \o (IF subtask.agent = CLAUDE_CODE
             THEN <<"Tested on server (if HA project)", "No errors in logs">> ELSE <<>>)
         \o <<"Documented review findings", "Either: Approved and ready for next step",
              "Or: Issues documented with clear fixes needed", "Changes committed to git">>
    ELSE <<"Task completed: " \o subtask.description, "Code follows project conventions",
           "Changes committed to git", "TASKS.md updated with progress">>
         \o (IF subtask.agent = CLAUDE_CODE
             THEN <<"Tested on server (if applicable)", "No errors in logs">> ELSE <<>>)
         \o (IF subtask.agent = CODEX
             THEN <<"Documentation is clear and complete", "YAML is valid (if applicable)">>
             ELSE <<>>)

\* the document with a line counting the subtasks already completed
generate_prompt_with_progress(task, subtasks, subtask, session_state) ==
    LET next_subtask == find_next_subtask(subtasks, subtask)
    IN  [agent |-> subtask.agent,
         description |-> subtask.description,
         project |-> task.project,
         estimated_minutes |-> subtask.estimated_minutes,
         priority |-> task.priority,
         context |-> IF task.context_files # <<>> THEN task.context_files
                     ELSE <<task.project \o "/LOCAL_CONTEXT.md", task.project \o "/TASKS.md",
                            ".github/AGENTS.md">>,
         instructions |-> get_task_specific_instructions(task, subtask),
         criteria |-> generate_success_criteria(task, subtask)
                         \o [i \in 1..Len(session_state.completed_subtasks) |-> "Done so far"],
         commit_message |-> "Task: " \o task.name \o " - " \o subtask.description,
         commit_status |-> get_completion_status(subtasks, subtask),
         next_agent |-> IF next_subtask # None THEN Some(next_subtask[1].agent) ELSE None,
         next_task |-> IF next_subtask # None THEN Some(next_subtask[1].description) ELSE None]

\* generate_prompt(task, subtask, session_state): the fields the document is
\* assembled from, in place of the rendered text
generate_prompt(task, subtasks, subtask, session_state) ==
    LET next_subtask == find_next_subtask(subtasks, subtask)
    IN  [agent |-> subtask.agent,
         description |-> subtask.description,
         project |-> task.project,
         estimated_minutes |-> subtask.estimated_minutes,
         priority |-> task.priority,
         context |-> IF task.context_files # <<>> THEN task.context_files
                     ELSE <<task.project \o "/LOCAL_CONTEXT.md", task.project \o "/TASKS.md",
                            ".github/AGENTS.md">>,
         instructions |-> get_task_specific_instructions(task, subtask),
         criteria |-> generate_success_criteria(task, subtask),
         commit_message |-> "Task: " \o task.name \o " - " \o subtask.description,
         commit_status |-> get_completion_status(subtasks, subtask),
         next_agent |-> IF next_subtask # None THEN Some(next_subtask[1].agent) ELSE None,
         next_task |-> IF next_subtask # None THEN Some(next_subtask[1].description) ELSE None]

\* ------------------------------------------------------------------------
\* SessionRouter: ledger persistence
\* ------------------------------------------------------------------------
\* JSON documents: null, a string, an array, an object (a function of keys)
JNull == [t |-> "null"]
JString(s) == [t |-> "string", v |-> s]
JArray(items) == [t |-> "array", v |-> items]
JObject(members) == [t |-> "object", v |-> members]

\* the file does not exist
AbsentFile == [kind |-> "absent"]
\* the file holds the text of a JSON document
JsonFile(doc) == [kind |-> "json", data |-> doc]
\* the file holds text that json.loads rejects
GarbageFile == [kind |-> "garbage"]
\* the directory .github, which holds the file, does not exist
NoWorkspace == [kind |-> "none"]

\* datetime.now().isoformat()
IsoFormat(t) == "2026-01-01T00:00:0" \o CharAt("0123456789", t + 1)

\* json.dumps of an Optional[str]
DumpOptional(v) == IF v = None THEN JNull ELSE JString(v[1])

\* json.dumps(self.state.to_dict())
Dumps(state) ==
    JObject([last_task_id |-> DumpOptional(state.last_task_id),
             last_subtask_id |-> DumpOptional(state.last_subtask_id),
             last_agent |-> DumpOptional(state.last_agent),
             last_updated |-> JString(state.last_updated),
             completed_subtasks |->
                 JArray([i \in 1..Len(state.completed_subtasks) |->
                            JString(state.completed_subtasks[i])])])

\* the Python value of a JSON document, for an Optional[str] field
LoadOptional(doc) == IF doc.t = "null" THEN None ELSE Some(doc.v)

\* the Python value of a JSON array of strings
LoadList(doc) == [i \in 1..Len(doc.v) |-> doc.v[i].v]

\* SessionState(**data): the keywords given, the defaults for the others
FromDict(members) ==
    LET given(f) == f \in DOMAIN members
    IN  [last_task_id |-> IF given("last_task_id")
                          THEN LoadOptional(members["last_task_id"])
                          ELSE SessionState.last_task_id,
         last_subtask_id |-> IF given("last_subtask_id")
                             THEN LoadOptional(members["last_subtask_id"])
                             ELSE SessionState.last_subtask_id,
         last_agent |-> IF given("last_agent")
                        THEN LoadOptional(members["last_agent"])
                        ELSE SessionState.last_agent,
         last_updated |-> IF given("last_updated")
                          THEN members["last_updated"].v
                          ELSE SessionState.last_updated,
         completed_subtasks |-> IF given("completed_subtasks")
                                THEN LoadList(members["completed_subtasks"])
                                ELSE SessionState.completed_subtasks]

\* the keywords SessionState(**data) accepts
StateFields ==
    {"last_task_id", "last_subtask_id", "last_agent", "last_updated", "completed_subtasks"}

\* the loader accepting a document with keys it does not know
load_state_lenient(file) ==
    IF file.kind # "json" THEN SessionState
    ELSE IF file.data.t # "object" THEN SessionState
    ELSE FromDict(file.data.v)

\* _load_state(): the empty state when the file is absent, when json.loads
\* raises, and when SessionState(**data) raises (data is not an object, or
\* has a key that is not a field)
_load_state(file) ==
    IF file.kind # "json" THEN SessionState
    ELSE IF file.data.t # "object" THEN SessionState
    ELSE IF ~(DOMAIN file.data.v \subseteq StateFields) THEN SessionState
    ELSE FromDict(file.data.v)

\* the file is written before last_updated is set
save_state_stale(state, t) ==
    [mem |-> [state EXCEPT !.last_updated = IsoFormat(t)], file |-> JsonFile(Dumps(state))]

\* _save_state(): the in-memory state and the file after it
_save_state(state, t) ==
    LET saved == [state EXCEPT !.last_updated = IsoFormat(t)]
    IN  [mem |-> saved, file |-> JsonFile(Dumps(saved))]

\* ------------------------------------------------------------------------
\* SessionRouter: backlog ranking
\* ------------------------------------------------------------------------
AsciiChars == " -0123456789ABCDEFGHIJKLMNOPQRSTUVWXYZ_abcdefghijklmnopqrstuvwxyz"

Ord(c) == CHOOSE i \in 1..Len(AsciiChars) : CharAt(AsciiChars, i) = c

RECURSIVE StrLess(_, _)
\* a < b, for strings
StrLess(a, b) ==
    IF Len(b) = 0 THEN FALSE
    ELSE IF Len(a) = 0 THEN TRUE
    ELSE IF CharAt(a, 1) # CharAt(b, 1) THEN Ord(CharAt(a, 1)) < Ord(CharAt(b, 1))
    ELSE StrLess(SubSeq(a, 2, Len(a)), SubSeq(b, 2, Len(b)))

\* the key with the duration compared ahead of the priority
SortKeyDurationFirst(t) ==
    <<IF t.status # IN_PROGRESS THEN 1 ELSE 0,
      t.estimated_minutes,
      Len(t.blocks_tasks),
      t.priority>>

\* the sort key of show_backlog
SortKey(t) ==
    <<IF t.status # IN_PROGRESS THEN 1 ELSE 0,
      t.priority,
      Len(t.blocks_tasks),
      t.estimated_minutes>>

\* a < b, for tuples of four ints
KeyLess(a, b) ==
    \E i \in 1..4 : a[i] < b[i] /\ \A j \in 1..(i - 1) : a[j] = b[j]

\* a sorts before b in show_backlog
TaskLess(a, b) == KeyLess(SortKey(a), SortKey(b))

RECURSIVE InsertTaskBeforeEqual(_, _)
\* x placed before the elements that are equal to it
InsertTaskBeforeEqual(x, sorted) ==
    IF sorted = <<>> THEN <<x>>
    ELSE IF ~TaskLess(Head(sorted), x) THEN <<x>> \o sorted
    ELSE <<Head(sorted)>> \o InsertTaskBeforeEqual(x, Tail(sorted))

RECURSIVE InsertTask(_, _)
\* x placed after every element that is not greater than it
InsertTask(x, sorted) ==
    IF sorted = <<>> THEN <<x>>
    ELSE IF TaskLess(x, Head(sorted)) THEN <<x>> \o sorted
    ELSE <<Head(sorted)>> \o InsertTask(x, Tail(sorted))

RECURSIVE SortTasks(_)
\* project_tasks.sort(key=...): a stable sort
SortTasks(seq) ==
    IF seq = <<>> THEN <<>>
    ELSE InsertTask(seq[Len(seq)], SortTasks(SubSeq(seq, 1, Len(seq) - 1)))

RECURSIVE InsertStr(_, _)
InsertStr(x, sorted) ==
    IF sorted = <<>> THEN <<x>>
    ELSE IF StrLess(x, Head(sorted)) THEN <<x>> \o sorted
    ELSE <<Head(sorted)>> \o InsertStr(x, Tail(sorted))

RECURSIVE SortStrings(_)
\* sorted(by_project.items()), on the project names
SortStrings(seq) ==
    IF seq = <<>> THEN <<>>
    ELSE InsertStr(seq[Len(seq)], SortStrings(SubSeq(seq, 1, Len(seq) - 1)))

RECURSIVE Concat(_)
Concat(seqs) == IF seqs = <<>> THEN <<>> ELSE Head(seqs) \o Concat(Tail(seqs))

RECURSIVE Dedup(_)
\* the keys of a dict, in insertion order
Dedup(seq) ==
    IF seq = <<>> THEN <<>>
    ELSE LET rest == Dedup(SubSeq(seq, 1, Len(seq) - 1))
         IN  IF InList(seq[Len(seq)], rest) THEN rest ELSE Append(rest, seq[Len(seq)])

\* show_backlog(tasks): task_map, as the list of tasks by option number
task_map(ts) ==
    LET open == SelectSeq(ts, LAMBDA t : t.status # COMPLETE)
        projects == Dedup([i \in 1..Len(open) |-> open[i].project])
        by_project(p) == SortTasks(SelectSeq(open, LAMBDA t : t.project = p))
        ordered == SortStrings(projects)
    IN  Concat([i \in 1..Len(ordered) |-> by_project(ordered[i])])

\* show_backlog(tasks): the task offered as option 0, if any
continue_option(ts, state) ==
    IF state.last_task_id = None THEN None
    ELSE LET hits == {i \in 1..Len(ts) : ts[i].id = state.last_task_id[1]}
             last_task == ts[CHOOSE i \in hits : \A j \in hits : i <= j]
         IN  IF hits # {} /\ last_task.status # COMPLETE THEN Some(last_task) ELSE None

\* ------------------------------------------------------------------------
\* SessionRouter: scheduling
\* ------------------------------------------------------------------------
\* the scan with the dependency test negated
find_next_deps_negated(subtasks, completed) ==
    LET ready == {i \in 1..Len(subtasks) :
                    /\ ~InList(subtasks[i].id, completed)
                    /\ \A d \in 1..Len(subtasks[i].dependencies) :
                          ~InList(subtasks[i].dependencies[d], completed)}
    IN  IF ready = {} THEN None
        ELSE Some(subtasks[CHOOSE i \in ready : \A j \in ready : i <= j])

\* the scan run from the end of the chain
find_next_reversed(subtasks, completed) ==
    LET ready == {i \in 1..Len(subtasks) :
                    /\ ~InList(subtasks[i].id, completed)
                    /\ \A d \in 1..Len(subtasks[i].dependencies) :
                          InList(subtasks[i].dependencies[d], completed)}
    IN  IF ready = {} THEN None
        ELSE Some(subtasks[CHOOSE i \in ready : \A j \in ready : i >= j])

\* the scan without the test on the subtask's own id
find_next_ignoring_completed(subtasks, completed) ==
    LET ready == {i \in 1..Len(subtasks) :
                    \A d \in 1..Len(subtasks[i].dependencies) :
                        InList(subtasks[i].dependencies[d], completed)}
    IN  IF ready = {} THEN None
        ELSE Some(subtasks[CHOOSE i \in ready : \A j \in ready : i <= j])

\* _find_next_incomplete_subtask(task), over task.subtasks and
\* state.completed_subtasks
_find_next_incomplete_subtask(subtasks, completed) ==
    LET ready == {i \in 1..Len(subtasks) :
                    /\ ~InList(subtasks[i].id, completed)
                    /\ \A d \in 1..Len(subtasks[i].dependencies) :
                          InList(subtasks[i].dependencies[d], completed)}
    IN  IF ready = {} THEN None
        ELSE Some(subtasks[CHOOSE i \in ready : \A j \in ready : i <= j])

\* an id already present is removed instead of appended
markCompleteToggle(completed, subtask_id) ==
    IF InList(subtask_id, completed)
    THEN SelectSeq(completed, LAMBDA x : x # subtask_id)
    ELSE Append(completed, subtask_id)

\* the list is assigned instead of appended to
markCompleteReplace(completed, subtask_id) == <<subtask_id>>

\* completed_subtasks.append(subtask_id)
markComplete(completed, subtask_id) == Append(completed, subtask_id)

\* the state is updated in memory and not written
process_task_unsaved(task, state, file, t) ==
    LET subtasks == decompose_task(task)
        next_subtask == _find_next_incomplete_subtask(subtasks, state.completed_subtasks)
    IN  IF next_subtask = None
        THEN [mem |-> state, file |-> file, result |-> "complete", task |-> Some(task.id),
              subtasks |-> subtasks, subtask |-> None, prompt |-> None]
        ELSE [mem |-> [state EXCEPT !.last_task_id = Some(task.id),
                                    !.last_subtask_id = Some(next_subtask[1].id),
                                    !.last_agent = Some(next_subtask[1].agent)],
              file |-> file, result |-> "prompt",
              task |-> Some(task.id), subtasks |-> subtasks, subtask |-> next_subtask,
              prompt |-> Some(generate_prompt(task, subtasks, next_subtask[1], state))]

\* process_task(task): the state in memory and on file after it, and what
\* it returned
process_task(task, state, file, t) ==
    LET subtasks == decompose_task(task)
        next_subtask == _find_next_incomplete_subtask(subtasks, state.completed_subtasks)
    IN  IF next_subtask = None
        THEN [mem |-> state, file |-> file, result |-> "complete", task |-> Some(task.id),
              subtasks |-> subtasks, subtask |-> None, prompt |-> None]
        ELSE LET saved == _save_state([state EXCEPT
                               !.last_task_id = Some(task.id),
                               !.last_subtask_id = Some(next_subtask[1].id),
                               !.last_agent = Some(next_subtask[1].agent)], t)
             IN  [mem |-> saved.mem, file |-> saved.file, result |-> "prompt",
                  task |-> Some(task.id), subtasks |-> subtasks, subtask |-> next_subtask,
                  prompt |-> Some(generate_prompt(task, subtasks, next_subtask[1], state))]

\* next((t for t in tasks if t.id == task_id), None)
FindTask(ts, task_id) ==
    LET hits == {i \in 1..Len(ts) : ts[i].id = task_id}
    IN  IF hits = {} THEN None ELSE Some(ts[CHOOSE i \in hits : \A j \in hits : i <= j])

\* an invocation that processed no task
NoTask(state, file, result) ==
    [mem |-> state, file |-> file, result |-> result, task |-> None,
     subtasks |-> <<>>, subtask |-> None, prompt |-> None]

\* _check_subtask_completed()
_check_subtask_completed(state) ==
    /\ get_last_commit_info # None
    /\ state.last_subtask_id # None
    /\ InStr(state.last_subtask_id[1], get_last_commit_info[1].message)

\* continue_last_task()
continue_last_task(ts, state, file, t) ==
    IF state.last_task_id = None THEN NoTask(state, file, "no_previous")
    ELSE LET task == FindTask(ts, state.last_task_id[1])
             marked == _save_state([state EXCEPT !.completed_subtasks =
                           markComplete(state.completed_subtasks, state.last_subtask_id[1])], t)
         IN  IF task = None THEN NoTask(state, file, "not_found")
             ELSE IF _check_subtask_completed(state) /\ state.last_subtask_id # None
                  THEN process_task(task[1], marked.mem, marked.file, t)
                  ELSE process_task(task[1], state, file, t)

\* int(choice), defined on strings of decimal digits
IsInt(choice) ==
    /\ Len(choice) > 0
    /\ \A i \in 1..Len(choice) : InStr(CharAt(choice, i), "0123456789")

RECURSIVE ParseInt(_)
ParseInt(choice) ==
    IF Len(choice) = 0 THEN 0
    ELSE 10 * ParseInt(SubSeq(choice, 1, Len(choice) - 1))
         + (CHOOSE d \in 0..9 : CharAt("0123456789", d + 1) = CharAt(choice, Len(choice)))

\* select_task_interactive() followed by the interactive branch of main()
select_task_interactive(ts, state, file, t, input) ==
    LET inferred_id == infer_last_task_from_commits(ts)
        inferred == _save_state([state EXCEPT !.last_task_id = inferred_id], t)
        infer == state.last_task_id = None /\ inferred_id # None
        state1 == IF infer THEN inferred.mem ELSE state
        file1 == IF infer THEN inferred.file ELSE file
        options == task_map(ts)
        choice == Strip(input)
    IN  IF choice = "0" /\ state1.last_task_id # None
        THEN LET task == FindTask(ts, state1.last_task_id[1])
             IN  IF task = None THEN NoTask(state1, file1, "not_found")
                 ELSE process_task(task[1], state1, file1, t)
        ELSE IF ~IsInt(choice) THEN NoTask(state1, file1, "aborted")
        ELSE IF ParseInt(choice) \in 1..Len(options)
             THEN process_task(options[ParseInt(choice)], state1, file1, t)
        ELSE NoTask(state1, file1, "invalid")

\* the --last branch of main()
process_last_task(ts, state, file, t) ==
    IF state.last_task_id = None THEN NoTask(state, file, "no_previous")
    ELSE LET task == FindTask(ts, state.last_task_id[1])
         IN  IF task = None THEN NoTask(state, file, "no_previous")
             ELSE process_task(task[1], state, file, t)

\* ------------------------------------------------------------------------
\* The backlogs and inputs of the model
\* ------------------------------------------------------------------------
BacklogA ==
    <<ParsedTask("kitlabworks", "Implement foo", NOT_STARTED, MEDIUM, 60, CODEX),
      ParsedTask("kitlabworks", "Add sensor", IN_PROGRESS, HIGH, 20, CLAUDE_CODE),
      ParsedTask("kitlabworks", "Old notes", COMPLETE, LOW, 30, CODEX)>>

BacklogB ==
    <<ParsedTask("kitlabworks", "Research docs", NOT_STARTED, LOW, 45, CODEX),
      ParsedTask("home-assistant-config", "Cleanup y", NOT_STARTED, CRITICAL, 90, CODEX)>>

\* two sections whose names agree on their first 30 characters get one id
BacklogC ==
    <<ParsedTask("ha", "Research living room light automation",
                 NOT_STARTED, MEDIUM, 30, CODEX),
      ParsedTask("ha", "Research living room light automation implement",
                 NOT_STARTED, LOW, 60, CODEX)>>

Backlogs == {BacklogA, BacklogB, BacklogC}

Inputs == {"0", "1", "2", "3", "x"}

DecompNames ==
    {"Implement foo", "Implement fix", "CREATE documentation", "Research fix",
     "Document API", "Fix x", "Refactor y", "Add sensor"}

\* the tasks the decomposition is exercised on
TaskUniverse ==
    {ParsedTask(project, name, sp[1], sp[2], est, agent) :
        project \in {"home-assistant-config", "kitlabworks"},
        name \in DecompNames,
        sp \in {<<NOT_STARTED, MEDIUM>>, <<IN_PROGRESS, CRITICAL>>},
        est \in 0..MaxEst,
        agent \in {CODEX, CLAUDE_CODE}}

\* ------------------------------------------------------------------------
\* Actions: one per invocation of main(), and the environment
\* ------------------------------------------------------------------------
Outcome(mode, exit, r) ==
    [mode |-> mode, exit |-> exit, result |-> r.result, task |-> r.task,
     subtasks |-> r.subtasks, subtask |-> r.subtask, prompt |-> r.prompt,
     state |-> r.mem]

\* main() left at its first test: there is no .github directory
NoWorkspaceOutcome(mode) ==
    [mode |-> mode, exit |-> 1, result |-> "no_workspace", task |-> None,
     subtasks |-> <<>>, subtask |-> None, prompt |-> None, state |-> SessionState]

\* main(): the workspace test, then the router built and run in one mode
Invocation(mode, exit, r) ==
    /\ Len(r.mem.completed_subtasks) <= MaxCompleted
    /\ ledger' = IF ledger = NoWorkspace THEN ledger ELSE r.file
    /\ out' = IF ledger = NoWorkspace THEN NoWorkspaceOutcome(mode) ELSE Outcome(mode, exit, r)
    /\ UNCHANGED <<tasks, commits, now, running>>

\* ./session_router.py
RunInteractive(input) ==
    Invocation("interactive", 0,
               select_task_interactive(tasks, _load_state(ledger), ledger, now, input))

\* ./session_router.py --next
RunNext ==
    Invocation("next", 0, continue_last_task(tasks, _load_state(ledger), ledger, now))

\* ./session_router.py --last
RunLast ==
    LET r == process_last_task(tasks, _load_state(ledger), ledger, now)
    IN  Invocation("last", IF r.task = None THEN 1 ELSE 0, r)

\* the subjects an agent or the operator may commit with
CommitSubjects ==
    LET state == _load_state(ledger)
    IN  {"wip"}
        \cup {"Task: " \o tasks[i].name \o " - done" : i \in 1..Len(tasks)}
        \cup {"Completed " \o state.last_subtask_id[i] : i \in 1..Len(state.last_subtask_id)}

\* git commit -m subject. The history holds the latest commit: --next reads
\* git log -1, and the inference takes the first recent commit that names a
\* task, which a commit made just before the invocation reproduces.
GitCommit(subject) ==
    /\ commits' = <<subject>>
    /\ UNCHANGED <<tasks, ledger, now, out, running>>

\* time passes
Tick ==
    /\ now < MaxClock
    /\ now' = now + 1
    /\ UNCHANGED <<tasks, ledger, commits, out, running>>

\* the processes that may run main() at the same time
Procs == {1, 2}

\* a process that has not started main()
Idle == [pc |-> "idle", mode |-> "none", mem |-> SessionState, appended |-> None]

NoneRunning == [p \in Procs |-> Idle]

NoOutcome ==
    [mode |-> "start", exit |-> 0, result |-> "none", task |-> None,
     subtasks |-> <<>>, subtask |-> None, prompt |-> None, state |-> SessionState]

Init ==
    /\ tasks \in Backlogs
    /\ ledger \in {AbsentFile, NoWorkspace}
    /\ commits = <<>>
    /\ now = 0
    /\ out = NoOutcome
    /\ running = NoneRunning

Next ==
    \/ \E input \in Inputs : RunInteractive(input)
    \/ RunNext
    \/ RunLast
    \/ \E subject \in CommitSubjects : GitCommit(subject)

Spec == Init /\ [][Next]_vars

\* the same invocations, with the clock advancing between them
NextTimed == Next \/ Tick

SpecTimed == Init /\ [][NextTimed]_vars

\* ledger files that _load_state cannot turn into a SessionState: text that
\* is not JSON, a JSON document that is not an object, and an object with a
\* key that is not a field (a ledger written by another version)
DamagedFiles ==
    {GarbageFile,
     JsonFile(JArray(<<>>)),
     JsonFile(JObject([last_task_id |-> JString("kitlabworks_add_sensor"),
                       last_subtask_id |-> JString("kitlabworks_add_sensor_complete"),
                       completed |-> JArray(<<JString("kitlabworks_add_sensor_complete")>>)]))}

\* the first invocation finds no ledger file, or a damaged one
InitLedger ==
    /\ tasks = BacklogA
    /\ ledger \in {AbsentFile} \cup DamagedFiles
    /\ commits = <<>>
    /\ now = 0
    /\ out = NoOutcome
    /\ running = NoneRunning

NextLedger ==
    \/ \E input \in {"0", "1", "2", "x"} : RunInteractive(input)
    \/ RunNext
    \/ RunLast
    \/ \E subject \in CommitSubjects : GitCommit(subject)
    \/ Tick

\* the invocations with the clock advancing between them, started on an
\* absent or damaged ledger file
SpecLedger == InitLedger /\ [][NextLedger]_vars

\* the tasks whose prompts are generated
PromptUniverse ==
    {[ParsedTask(project, name, NOT_STARTED, MEDIUM, 60, agent) EXCEPT !.context_files = cf] :
        project \in {"home-assistant-config", "kitlabworks"},
        name \in {"Implement foo", "Research docs", "Fix x", "Add sensor",
                  "Review docs", "Verify cables"},
        agent \in {CODEX, CLAUDE_CODE, CHATGPT, PERPLEXITY},
        cf \in {<<>>, <<"docs/README.md">>}}

InitPrompt ==
    /\ tasks \in {<<t>> : t \in PromptUniverse}
    /\ ledger = AbsentFile
    /\ commits = <<>>
    /\ now = 0
    /\ out = NoOutcome
    /\ running = NoneRunning

\* what the agent that received a prompt may commit with: the subject of
\* the prompt's Commit Instructions, or a subject naming the subtask
HandoffSubjects ==
    {out.prompt[i].commit_message : i \in 1..Len(out.prompt)}
    \cup {"Completed " \o out.subtask[i].id : i \in 1..Len(out.subtask)}

NextPrompt ==
    \/ RunInteractive("1")
    \/ RunNext
    \/ \E subject \in HandoffSubjects : GitCommit(subject)

\* one task selected and worked through by agents that commit and run --next
SpecPrompt == InitPrompt /\ [][NextPrompt]_vars

\* one task per decomposition pattern
PatternTasks ==
    {ParsedTask(project, name, NOT_STARTED, MEDIUM, 60, CODEX) :
        project \in {"home-assistant-config", "kitlabworks"},
        name \in {"Implement foo", "Research docs", "Fix x", "Add sensor"}}

\* the lists without repetition over a set of ids: every subset in every order
Orderings(ids) ==
    {c \in UNION {[1..n -> ids] : n \in 0..Cardinality(ids)} :
        \A i, j \in 1..Len(c) : c[i] = c[j] => i = j}

\* session_state.json with any completed_subtasks over the ids of the chain
\* of the task and one id of another task, task being the last task
LedgersOver(task) ==
    LET chain == decompose_task(task)
        ids == {chain[k].id : k \in 1..Len(chain)} \cup {"kitlabworks_other_complete"}
    IN  {JsonFile(Dumps([SessionState EXCEPT !.last_task_id = Some(task.id),
                                             !.last_updated = IsoFormat(0),
                                             !.completed_subtasks = c])) :
            c \in Orderings(ids)}

InitBlocked ==
    /\ tasks \in {<<t>> : t \in PatternTasks}
    /\ ledger \in LedgersOver(tasks[1])
    /\ commits = <<>>
    /\ now = 0
    /\ out = NoOutcome
    /\ running = NoneRunning

NextBlocked ==
    \/ RunInteractive("1")
    \/ RunLast

\* process_task run on one task over every content of completed_subtasks
SpecBlocked == InitBlocked /\ [][NextBlocked]_vars

\* SessionRouter.__init__ in process p: the ledger file is read once, into
\* the state this process keeps to its end
Begin(p, mode) ==
    /\ running[p].pc = "idle"
    /\ running' = [running EXCEPT ![p] = [pc |-> "loaded", mode |-> mode,
                                          mem |-> _load_state(ledger), appended |-> None]]
    /\ UNCHANGED <<tasks, ledger, commits, now, out>>

\* the append of continue_last_task with the file read again before it
mark_completed_reloading(state, file, t) ==
    _save_state([state EXCEPT !.completed_subtasks =
                    markComplete(_load_state(file).completed_subtasks,
                                 state.last_subtask_id[1])], t)

\* the append of continue_last_task and its _save_state(), file being the
\* ledger file at that moment
mark_completed(state, file, t) ==
    _save_state([state EXCEPT !.completed_subtasks =
                    markComplete(state.completed_subtasks, state.last_subtask_id[1])], t)

\* process p leaves main()
Exit(p, mode, exit, r) ==
    /\ running' = [running EXCEPT ![p].pc = "done", ![p].mem = r.mem]
    /\ ledger' = r.file
    /\ out' = Outcome(mode, exit, r)
    /\ UNCHANGED <<tasks, commits, now>>

\* continue_last_task() in process p, up to the call of process_task
CheckCompleted(p) ==
    LET state == running[p].mem
        task == FindTask(tasks, state.last_task_id[1])
        marked == mark_completed(state, ledger, now)
    IN  /\ running[p].pc = "loaded"
        /\ running[p].mode = "next"
        /\ IF state.last_task_id = None
           THEN Exit(p, "next", 0, NoTask(state, ledger, "no_previous"))
           ELSE IF task = None
           THEN Exit(p, "next", 0, NoTask(state, ledger, "not_found"))
           ELSE IF _check_subtask_completed(state) /\ state.last_subtask_id # None
           THEN /\ Len(marked.mem.completed_subtasks) <= MaxCompleted
                /\ running' = [running EXCEPT ![p].pc = "marked", ![p].mem = marked.mem,
                                              ![p].appended = state.last_subtask_id]
                /\ ledger' = marked.file
                /\ UNCHANGED <<tasks, commits, now, out>>
           ELSE /\ running' = [running EXCEPT ![p].pc = "marked"]
                /\ UNCHANGED <<tasks, ledger, commits, now, out>>

\* process_task(task) in process p, called by continue_last_task or by the
\* --last branch of main()
ProcessTask(p) ==
    LET state == running[p].mem
        mode == running[p].mode
        task == FindTask(tasks, state.last_task_id[1])
    IN  /\ \/ running[p].pc = "marked"
           \/ running[p].pc = "loaded" /\ mode = "last"
        /\ IF state.last_task_id = None \/ task = None
           THEN Exit(p, mode, 1, NoTask(state, ledger, "no_previous"))
           ELSE Exit(p, mode, 0, process_task(task[1], state, ledger, now))

InitConcurrent ==
    /\ tasks = BacklogA
    /\ ledger = AbsentFile
    /\ commits = <<>>
    /\ now = 0
    /\ out = NoOutcome
    /\ running = NoneRunning

NextConcurrent ==
    \/ \E input \in {"1", "2"} : running = NoneRunning /\ RunInteractive(input)
    \/ \E subject \in CommitSubjects : GitCommit(subject)
    \/ \E p \in Procs, mode \in {"next", "last"} : Begin(p, mode)
    \/ \E p \in Procs : CheckCompleted(p)
    \/ \E p \in Procs : ProcessTask(p)

\* a selection, then two invocations of --next or --last whose reads and
\* writes of the ledger file interleave
SpecConcurrent == InitConcurrent /\ [][NextConcurrent]_vars

\* a Task with block edges, as show_backlog accepts it
RankedTask(project, name, attrs) ==
    [ParsedTask(project, name, attrs[1], attrs[2], attrs[4], CODEX)
        EXCEPT !.blocks_tasks = attrs[3]]

\* status, priority, blocks_tasks and estimated_minutes of the ranked tasks
RankAttrs ==
    {NOT_STARTED, IN_PROGRESS, COMPLETE} \X {CRITICAL, HIGH}
        \X {<<>>, <<"kitlabworks_other", "kitlabworks_more">>} \X {15, 90}

\* the projects of the first two tasks of a ranked backlog
RankProjects ==
    {<<"kitlabworks", "kitlabworks">>,
     <<"kitlabworks", "home-assistant-config">>,
     <<"home-assistant-config", "kitlabworks">>}

\* backlogs of three tasks: two with any attributes, and a third one
RankBacklogs ==
    {<<RankedTask(pr[1], "Alpha", a), RankedTask(pr[2], "Beta", b),
       RankedTask("kitlabworks", "Gamma", <<NOT_STARTED, HIGH, <<>>, 15>>)>> :
        pr \in RankProjects, a \in RankAttrs, b \in RankAttrs}

InitRanking ==
    /\ tasks \in RankBacklogs
    /\ ledger = AbsentFile
    /\ commits = <<>>
    /\ now = 0
    /\ out = NoOutcome
    /\ running = NoneRunning

NextRanking == \E input \in {"1", "2", "3"} : RunInteractive(input)

\* show_backlog and the selection of one of its options, on every backlog
\* of RankBacklogs
SpecRanking == InitRanking /\ [][NextRanking]_vars

\* the decomposition applied to every task of TaskUniverse, by selecting it
InitDecompose ==
    /\ tasks \in {<<t>> : t \in TaskUniverse}
    /\ ledger = AbsentFile
    /\ commits = <<>>
    /\ now = 0
    /\ out = NoOutcome
    /\ running = NoneRunning

NextDecompose ==
    \/ \E input \in {"0", "1"} : RunInteractive(input)
    \/ RunLast

SpecDecompose == InitDecompose /\ [][NextDecompose]_vars

TypeOK ==
    /\ now \in 0..MaxClock
    /\ Len(commits) <= 1
    /\ ledger.kind \in {"absent", "json", "garbage", "none"}
    /\ out.result \in {"none", "prompt", "complete", "no_previous", "not_found",
                       "aborted", "invalid", "no_workspace"}

\* ------------------------------------------------------------------------
\* Properties of the scheduler
\* ------------------------------------------------------------------------
\* completed_subtasks as the next invocation will load it
Completed == _load_state(ledger).completed_subtasks

\* task.subtasks of every task of the backlog, once decomposed
Chains == [i \in 1..Len(tasks) |-> decompose_task(tasks[i])]

\* subtask k of the chain is not completed and its dependencies all are
Eligible(chain, k, completed) ==
    /\ ~InList(chain[k].id, completed)
    /\ \A d \in 1..Len(chain[k].dependencies) : InList(chain[k].dependencies[d], completed)

AllCompleted(chain, completed) == \A k \in 1..Len(chain) : InList(chain[k].id, completed)

HasDuplicate(seq) == \E i, j \in 1..Len(seq) : i < j /\ seq[i] = seq[j]

\* C1: dependency gating. In every ledger state reached by interactive
\* selection, --next and --last, the subtask that the next-actionable scan
\* returns for any task of the backlog, and the subtask an invocation handed
\* out, has every id of its dependency list in completedSubtasks.
C1_DependencyGating ==
    /\ \A i \in 1..Len(tasks) :
          LET next == _find_next_incomplete_subtask(Chains[i], Completed)
          IN  next # None =>
                 \A d \in 1..Len(next[1].dependencies) :
                    InList(next[1].dependencies[d], Completed)
    /\ out.subtask # None =>
          \A d \in 1..Len(out.subtask[1].dependencies) :
             InList(out.subtask[1].dependencies[d], Completed)

\* an invocation handed out a subtask that has a dependency
C1_Witness ==
    /\ out.result = "prompt"
    /\ Len(out.subtask[1].dependencies) > 0
    /\ Len(Completed) > 0

\* C2: the scan returns the first subtask in chain order that is not in
\* completedSubtasks and whose dependencies all are; no subtask at a lower
\* chain index satisfies both conditions, and it returns none only when no
\* subtask satisfies both.
C2_FirstActionable ==
    /\ \A i \in 1..Len(tasks) :
          LET chain == Chains[i]
              next == _find_next_incomplete_subtask(chain, Completed)
          IN  IF next = None
              THEN \A k \in 1..Len(chain) : ~Eligible(chain, k, Completed)
              ELSE \E k \in 1..Len(chain) :
                      /\ chain[k] = next[1]
                      /\ Eligible(chain, k, Completed)
                      /\ \A j \in 1..(k - 1) : ~Eligible(chain, j, Completed)
    /\ out.result = "prompt" =>
          \E k \in 1..Len(out.subtasks) :
             /\ out.subtasks[k] = out.subtask[1]
             /\ Eligible(out.subtasks, k, Completed)
             /\ \A j \in 1..(k - 1) : ~Eligible(out.subtasks, j, Completed)

\* with completedSubtasks = [t1_plan] the implement stage is handed out
C2_Witness ==
    /\ Completed = <<"kitlabworks_implement_foo_plan">>
    /\ out.result = "prompt"
    /\ out.subtask[1].id = "kitlabworks_implement_foo_implement"

\* C3: exhaustion. Whenever every subtask id of a task's chain is in
\* completedSubtasks the scan returns none for that task, and an invocation
\* that processed such a task reported it complete and handed out no prompt.
C3_Exhaustion ==
    /\ \A i \in 1..Len(tasks) :
          LET chain == Chains[i]
          IN  AllCompleted(chain, Completed) =>
                 _find_next_incomplete_subtask(chain, Completed) = None
    /\ (out.task # None /\ AllCompleted(out.subtasks, Completed)) =>
          (out.result = "complete" /\ out.prompt = None /\ out.subtask = None)

\* a four-stage chain was worked to its end and --next reported it complete
C3_Witness ==
    /\ out.mode = "next"
    /\ out.result = "complete"
    /\ Len(out.subtasks) = 4
    /\ AllCompleted(out.subtasks, Completed)

\* the subtask ids of the backlog
BacklogIds ==
    UNION {{Chains[i][k].id : k \in 1..Len(Chains[i])} : i \in 1..Len(tasks)}

\* C4: marking the same subtask id complete twice gives the same
\* next-actionable result, for every task, as marking it once.
C4_MarkTwiceSameNext ==
    \A id \in BacklogIds : \A i \in 1..Len(tasks) :
       LET chain == Chains[i]
           once == markComplete(Completed, id)
           twice == markComplete(once, id)
       IN  _find_next_incomplete_subtask(chain, twice)
              = _find_next_incomplete_subtask(chain, once)

\* --next marked the same id a second time and the task is still complete
C4_Witness ==
    /\ HasDuplicate(Completed)
    /\ out.mode = "next"
    /\ out.result = "complete"

\* C5: no subtask id occurs more than once in completedSubtasks.
C5_NoDuplicateCompleted == ~HasDuplicate(Completed)

\* C6: completedSubtasks only grows. Every id in the persisted
\* completedSubtasks before a step is still in it after the step.
C6_OnlyGrows ==
    [][\A k \in 1..Len(Completed) : InList(Completed[k], Completed')]_vars

\* two invocations in a row each added an id
C6_Witness ==
    /\ Len(Completed) >= 2
    /\ out.mode = "next"
    /\ out.result = "prompt"

\* ------------------------------------------------------------------------
\* Properties of the decomposition (under SpecDecompose the backlog is one
\* task of TaskUniverse and out.subtasks is its chain, as process_task
\* decomposed it)
\* ------------------------------------------------------------------------
NameHas(task, word) == InStr(word, Lower(task.name))

\* the predicate of decomposition rule r
RuleHolds(task, r) ==
    CASE r = 1 -> NameHas(task, "implement") \/ NameHas(task, "create")
      [] r = 2 -> NameHas(task, "document") \/ NameHas(task, "research")
      [] r = 3 -> task.project = "home-assistant-config"
      [] r = 4 -> NameHas(task, "fix") \/ NameHas(task, "cleanup") \/ NameHas(task, "refactor")
      [] r = 5 -> TRUE

\* the lowest-numbered rule whose predicate holds
LowestRule(task) ==
    CHOOSE r \in 1..5 : RuleHolds(task, r) /\ \A q \in 1..(r - 1) : ~RuleHolds(task, q)

\* the id suffixes of the chain of each rule
RuleSuffixes ==
    <<<<"_plan", "_implement", "_review", "_test">>,
      <<"_research", "_document", "_review">>,
      <<"_yaml", "_review", "_validate", "_test">>,
      <<"_fix", "_verify">>,
      <<"_complete">>>>

Ids(chain) == [k \in 1..Len(chain) |-> chain[k].id]
Durations(chain) == [k \in 1..Len(chain) |-> chain[k].estimated_minutes]

\* the tasks that agree with task on id, name, project, agent and
\* estimatedMinutes and differ in the other fields
SameInputTasks(task) ==
    {[task EXCEPT !.status = st, !.priority = pr, !.context_files = cf, !.description = de] :
        st \in {NOT_STARTED, IN_PROGRESS, BLOCKED},
        pr \in {CRITICAL, MEDIUM},
        cf \in {<<>>, <<"README.md">>},
        de \in {"", "**Status:** x"}}

\* C7: determinism. The chain process_task computed for a task is the chain
\* decompose_task returns for every task with the same id, name, project,
\* agent and estimatedMinutes, whatever the ledger holds and whatever was
\* decomposed before.
C7_Determinism ==
    out.task # None =>
       \A t \in SameInputTasks(tasks[1]) : decompose_task(t) = out.subtasks

\* a second invocation decomposed an In-Progress task again, after the
\* first one had written the ledger
C7_Witness ==
    /\ out.mode = "last"
    /\ out.result = "prompt"
    /\ tasks[1].status = IN_PROGRESS
    /\ _load_state(ledger).last_subtask_id # None

\* C8: the rules are tested in the order 1..5 and the chain is exactly the
\* chain of the lowest-numbered rule whose predicate holds.
C8_RuleOrder ==
    out.task # None =>
       LET suffixes == RuleSuffixes[LowestRule(tasks[1])]
       IN  Ids(out.subtasks) = [k \in 1..Len(suffixes) |-> tasks[1].id \o suffixes[k]]

\* a home-assistant-config task named "Fix x" got the four-stage chain
C8_Witness ==
    /\ tasks[1].name = "Fix x"
    /\ tasks[1].project = "home-assistant-config"
    /\ out.task # None
    /\ Ids(out.subtasks) = <<tasks[1].id \o "_yaml", tasks[1].id \o "_review",
                             tasks[1].id \o "_validate", tasks[1].id \o "_test">>

\* C9: rule 1 gives [plan, implement, review, test] with durations 10,
\* estimatedMinutes - 30, 10, 10 (not clamped below 30), the implement stage
\* with the task's own agent, and each stage depending on the one before.
C9_Rule1 ==
    (out.task # None /\ RuleHolds(tasks[1], 1)) =>
       LET t == tasks[1]
           c == out.subtasks
       IN  /\ Ids(c) = <<t.id \o "_plan", t.id \o "_implement",
                         t.id \o "_review", t.id \o "_test">>
           /\ Durations(c) = <<10, t.estimated_minutes - 30, 10, 10>>
           /\ c[2].agent = t.agent
           /\ c[1].dependencies = <<>>
           /\ c[2].dependencies = <<c[1].id>>
           /\ c[3].dependencies = <<c[2].id>>
           /\ c[4].dependencies = <<c[3].id>>

\* a 20-minute task named "Implement foo" got an implement stage of -10
C9_Witness ==
    /\ tasks[1].name = "Implement foo"
    /\ tasks[1].estimated_minutes = 20
    /\ out.task # None
    /\ out.subtasks[2].estimated_minutes = -10

\* C10: rules 2, 3 and 4 give each subtask the integer-truncated share of
\* estimatedMinutes: a third each; 4/10, 2/10, 2/10, 2/10; 7/10 and 3/10.
C10_TruncatedShares ==
    out.task # None =>
       LET est == tasks[1].estimated_minutes
           rule == LowestRule(tasks[1])
       IN  /\ rule = 2 => Durations(out.subtasks) = <<est \div 3, est \div 3, est \div 3>>
           /\ rule = 3 => Durations(out.subtasks) =
                 <<(4 * est) \div 10, (2 * est) \div 10, (2 * est) \div 10, (2 * est) \div 10>>
           /\ rule = 4 => Durations(out.subtasks) = <<(7 * est) \div 10, (3 * est) \div 10>>

\* the chain is not empty, its ids are distinct and of the form
\* {task.id}_{suffix}, and each subtask depends on the one before it only
WellFormedChain(task, chain) ==
    /\ Len(chain) > 0
    /\ \A i, j \in 1..Len(chain) : i < j => chain[i].id # chain[j].id
    /\ \A k \in 1..Len(chain) :
          /\ Len(chain[k].id) > Len(task.id) + 1
          /\ Prefix(chain[k].id, Len(task.id) + 1) = task.id \o "_"
    /\ chain[1].dependencies = <<>>
    /\ \A k \in 2..Len(chain) : chain[k].dependencies = <<chain[k - 1].id>>

\* C11: every chain decompose_task returns, for every rule, is a well-formed
\* linear chain: non-empty, with pairwise distinct ids of the form
\* {task.id}_{suffix}, the first subtask without dependency and every later
\* one with exactly one dependency, the id of its immediate predecessor.
C11_LinearChain ==
    out.task # None => WellFormedChain(tasks[1], out.subtasks)

\* a home-assistant-config task got the four-stage chain of rule 3
C11_Witness ==
    /\ out.task # None
    /\ LowestRule(tasks[1]) = 3
    /\ Len(out.subtasks) = 4
    /\ out.subtasks[4].dependencies = <<tasks[1].id \o "_validate">>

\* ------------------------------------------------------------------------
\* Properties of the ledger
\* ------------------------------------------------------------------------
\* the file cannot be loaded: it is absent or damaged
Unloadable(file) == file = AbsentFile \/ file \in DamagedFiles

SameLedger(a, b) ==
    /\ a.last_task_id = b.last_task_id
    /\ a.last_subtask_id = b.last_subtask_id
    /\ a.last_agent = b.last_agent
    /\ a.last_updated = b.last_updated
    /\ a.completed_subtasks = b.completed_subtasks

\* C12: ledger round trip. Whenever an invocation has written the ledger
\* file, what a fresh invocation loads from it has the same lastTaskId,
\* lastSubtaskId, lastAgent, lastUpdated and completedSubtasks sequence as
\* the in-memory state that was saved.
C12_RoundTrip ==
    [][(ledger' # ledger /\ ~Unloadable(ledger'))
          => SameLedger(_load_state(ledger'), out'.state)]_vars

\* a ledger with a completed subtask was saved after the clock advanced
C12_Witness ==
    /\ ledger.kind = "json"
    /\ ledger \notin DamagedFiles
    /\ out.state.last_updated = IsoFormat(1)
    /\ Len(out.state.completed_subtasks) > 0
    /\ out.state.last_subtask_id # None
    /\ SameLedger(_load_state(ledger), out.state)

Loaded == _load_state(ledger)

\* C14: when process_task hands out subtask s of task t it sets lastTaskId,
\* lastSubtaskId and lastAgent to t.id, s.id and the agent of s, leaves
\* completedSubtasks unchanged and persists the ledger before returning;
\* when it hands out nothing it leaves the ledger unchanged in memory and on
\* file.
C14_ProcessTaskEffect ==
    /\ \A i \in 1..Len(tasks) :
          LET r == process_task(tasks[i], Loaded, ledger, now)
          IN  IF r.subtask # None
              THEN /\ r.mem.last_task_id = Some(tasks[i].id)
                   /\ r.mem.last_subtask_id = Some(r.subtask[1].id)
                   /\ r.mem.last_agent = Some(r.subtask[1].agent)
                   /\ r.mem.completed_subtasks = Loaded.completed_subtasks
                   /\ SameLedger(_load_state(r.file), r.mem)
              ELSE r.mem = Loaded /\ r.file = ledger
    /\ out.result = "prompt" =>
          /\ Loaded.last_task_id = out.task
          /\ Loaded.last_subtask_id = Some(out.subtask[1].id)
          /\ Loaded.last_agent = Some(out.subtask[1].agent)
          /\ SameLedger(Loaded, out.state)
    /\ out.result = "complete" => SameLedger(Loaded, out.state)

\* --last handed out a subtask of a task that has a completed subtask
C14_Witness ==
    /\ out.mode = "last"
    /\ out.result = "prompt"
    /\ Len(Completed) > 0
    /\ Loaded.last_subtask_id = Some(out.subtask[1].id)

\* the oracle affirms the last subtask of the ledger
Affirmed == _check_subtask_completed(Loaded)

\* subtask s directly follows the subtask with this id in the chain
Follows(chain, s, id) ==
    \E k \in 1..(Len(chain) - 1) : chain[k].id = id /\ chain[k + 1] = s

\* C15: on a --next invocation for which the oracle affirms lastSubtaskId,
\* the id is appended to completedSubtasks and persisted, the subtask handed
\* out is not the affirmed one, and it is the subtask that follows the
\* affirmed one in the chain.
C15_AffirmedAdvances ==
    [][(Affirmed /\ out'.mode = "next" /\ ledger' # ledger) =>
          LET last == Loaded.last_subtask_id[1]
          IN  /\ Completed' = Append(Completed, last)
              /\ out'.subtask # None =>
                    /\ out'.subtask[1].id # last
                    /\ Follows(out'.subtasks, out'.subtask[1], last)]_vars

\* C16: on a --next invocation for which the oracle does not affirm
\* lastSubtaskId, completedSubtasks is unchanged and the subtask handed out
\* is the one the ledger recorded as proposed.
C16_StallNoSideEffect ==
    [][(~Affirmed /\ Loaded.last_subtask_id # None /\ out'.mode = "next"
           /\ (out' # out \/ ledger' # ledger)) =>
          /\ Completed' = Completed
          /\ out'.subtask # None => Some(out'.subtask[1].id) = Loaded.last_subtask_id]_vars

\* ------------------------------------------------------------------------
\* Properties of the ranking (under SpecRanking)
\* ------------------------------------------------------------------------
\* the options of show_backlog, in the order shown
Ranked == task_map(tasks)

InProgress(t) == t.status = IN_PROGRESS

\* the position of a task in the backlog source
SourceIndex(t) == CHOOSE i \in 1..Len(tasks) : tasks[i] = t

\* C17: in the backlog shown, Complete tasks never appear, projects appear
\* in alphabetical order, and within a project every In-Progress task
\* precedes every other task and, among tasks with the same in-progress
\* flag, a lower priority ordinal precedes a higher one whatever the blocks
\* counts and durations. The option selected is a task of the list shown.
C17_RankingStatusPriority ==
    /\ \A k \in 1..Len(Ranked) : Ranked[k].status # COMPLETE
    /\ \A i \in 1..Len(tasks) :
          tasks[i].status # COMPLETE =>
             Cardinality({k \in 1..Len(Ranked) : Ranked[k] = tasks[i]}) = 1
    /\ \A i, j \in 1..Len(Ranked) :
          i < j =>
             /\ Ranked[i].project # Ranked[j].project =>
                   StrLess(Ranked[i].project, Ranked[j].project)
             /\ Ranked[i].project = Ranked[j].project =>
                   /\ InProgress(Ranked[j]) => InProgress(Ranked[i])
                   /\ InProgress(Ranked[i]) = InProgress(Ranked[j]) =>
                         Ranked[i].priority <= Ranked[j].priority
    /\ (out.mode = "interactive" /\ out.task # None) =>
          \E k \in 1..Len(Ranked) : Some(Ranked[k].id) = out.task

\* a Critical 90-minute task that came second in the source was shown, and
\* selected, as option 1, ahead of a High 15-minute task of its project
C17_Witness ==
    /\ tasks[1].project = tasks[2].project
    /\ tasks[1].status = NOT_STARTED /\ tasks[2].status = NOT_STARTED
    /\ tasks[1].priority = HIGH /\ tasks[1].estimated_minutes = 15
    /\ tasks[2].priority = CRITICAL /\ tasks[2].estimated_minutes = 90
    /\ Ranked[1] = tasks[2]
    /\ out.task = Some(tasks[2].id)

C19_StableIdempotent ==
    /\ \A i, j \in 1..Len(Ranked) :
          (/\ i < j
           /\ Ranked[i].project = Ranked[j].project
           /\ SortKey(Ranked[i]) = SortKey(Ranked[j])) =>
             SourceIndex(Ranked[i]) < SourceIndex(Ranked[j])
    /\ task_map(Ranked) = Ranked

\* the first and the third task of the source have equal keys, the second
\* one was ranked ahead of both, and option 2 selected the first
C19_Witness ==
    /\ Len(Ranked) = 3
    /\ SortKey(tasks[1]) = SortKey(tasks[3])
    /\ Ranked = <<tasks[2], tasks[1], tasks[3]>>
    /\ out.task = Some(tasks[1].id)

\* the ledger as show_backlog sees it: with the last task inferred from the
\* commit history when the ledger names none
ShownState ==
    IF Loaded.last_task_id = None
    THEN [Loaded EXCEPT !.last_task_id = infer_last_task_from_commits(tasks)]
    ELSE Loaded

\* C20: the continue choice exists exactly when lastTaskId resolves to a
\* non-Complete task of the backlog. Then it is option 0 and entering 0
\* selects that task; otherwise option 0 is not offered and entering 0
\* selects no task. An interactive invocation never selects a task that is
\* Complete.
C20_ContinueChoice ==
    /\ LET offered == continue_option(tasks, ShownState)
           r == select_task_interactive(tasks, Loaded, ledger, now, "0")
       IN  IF offered # None THEN r.task = Some(offered[1].id) ELSE r.task = None
    /\ (out.mode = "interactive" /\ out.task # None) =>
          \E i \in 1..Len(tasks) :
             Some(tasks[i].id) = out.task /\ tasks[i].status # COMPLETE

\* C21: an invalid selection leaves the ledger untouched. When an
\* interactive invocation ends without a task selected (the input is not a
\* number, or is a number that is not an offered option), the persisted
\* ledger after it is the persisted ledger before it, also when lastTaskId
\* was unset and could be inferred from the commit history.
C21_InvalidSelectionUntouched ==
    [][(out'.mode = "interactive" /\ out'.result \in {"aborted", "invalid", "not_found"})
          => ledger' = ledger]_vars

\* C22: exit codes. An invocation exits with 1 when there is no .github
\* directory and when --next or --last find no previous task (lastTaskId
\* unset or unresolvable), and with 0 when it succeeds.
C22_ExitCodes ==
    /\ out.result = "no_workspace" => out.exit = 1
    /\ (out.mode \in {"next", "last"} /\ out.result \in {"no_previous", "not_found"})
          => out.exit = 1
    /\ out.result \in {"prompt", "complete"} => out.exit = 0

\* ------------------------------------------------------------------------
\* Properties of the prompts (under SpecPrompt the backlog is one task of
\* PromptUniverse)
\* ------------------------------------------------------------------------
\* the ledgers that differ from the persisted one in completedSubtasks only
CompletedVariants ==
    {[Loaded EXCEPT !.completed_subtasks = c] :
        c \in {<<>>, Completed, Completed \o <<"kitlabworks_other_complete">>,
                Ids(out.subtasks)}}

\* C24: prompt assembly is pure with respect to the ledger. The document an
\* invocation handed out is the one generate_prompt gives for the same task
\* and subtask under every ledger that differs in completedSubtasks only,
\* and the ledger persisted by the invocation holds exactly what
\* process_task assigned: the ids of the task and subtask, the subtask's
\* agent, and the completedSubtasks it was given.
C24_PromptPure ==
    out.result = "prompt" =>
       /\ \A st \in CompletedVariants :
             generate_prompt(tasks[1], out.subtasks, out.subtask[1], st) = out.prompt[1]
       /\ Loaded.last_task_id = Some(tasks[1].id)
       /\ Loaded.last_subtask_id = Some(out.subtask[1].id)
       /\ Loaded.last_agent = Some(out.subtask[1].agent)
       /\ \A k \in 1..Len(out.subtasks) :
             out.subtasks[k] = decompose_task(tasks[1])[k]

\* --next handed out the prompt of a later stage, with completed subtasks
\* in the ledger
C24_Witness ==
    /\ out.mode = "next"
    /\ out.result = "prompt"
    /\ Len(Completed) >= 2
    /\ out.prompt[1].next_agent # None

\* the subtask is the last one of the chain
IsLast(chain, s) == chain[Len(chain)] = s

\* C25: the handoff protocol closes the loop. If the latest commit carries
\* the subject given in the Commit Instructions of the prompt for subtask s,
\* the next --next adds s.id to completedSubtasks and hands out the subtask
\* following s, or reports the task complete when s was the last one.
C25_HandoffClosesLoop ==
    [][(/\ out.result = "prompt"
        /\ commits = <<out.prompt[1].commit_message>>
        /\ out'.mode = "next"
        /\ out' # out) =>
          /\ InList(out.subtask[1].id, Completed')
          /\ IF IsLast(out.subtasks, out.subtask[1])
             THEN out'.result = "complete"
             ELSE /\ out'.subtask # None
                  /\ Follows(out.subtasks, out'.subtask[1], out.subtask[1].id)]_vars

\* the subtask was produced as a review or verify stage
ReviewStage(task, subtask) ==
    subtask.id \in {task.id \o "_review", task.id \o "_verify"}

ReviewTemplates ==
    {"As Codex (Reviewer)", "As ChatGPT (Reviewer)", "As Claude Code (Validator)"}

\* C26: the review axis of the prompt depends on the kind of the subtask
\* only. The review instruction template and the review checklist are in
\* the prompt exactly when the subtask is a review or verify stage, whatever
\* the name or id of its task.
C26_ReviewAxis ==
    out.result = "prompt" =>
       LET review == ReviewStage(tasks[1], out.subtask[1])
           prompt == out.prompt[1]
       IN  /\ (prompt.instructions[1] \in ReviewTemplates) <=> review
           /\ (prompt.criteria[1] = "Reviewed previous agent's work") <=> review

\* the positions of the chain whose id is not in completed
Missing(chain, completed) == {k \in 1..Len(chain) : ~InList(chain[k].id, completed)}

\* the lowest position of a non-empty set of positions
Lowest(positions) == CHOOSE k \in positions : \A j \in positions : k <= j

\* C27: a decomposed task is never blocked. For the chain of every pattern
\* and every completed_subtasks (any ids in any order), the scan returns
\* none exactly when every id of the chain is completed and otherwise the
\* lowest-index subtask that is not; an invocation reports the task
\* complete only then, and hands out that subtask otherwise.
C27_NeverBlocked ==
    LET chain == decompose_task(tasks[1])
        missing == Missing(chain, Completed)
        found == _find_next_incomplete_subtask(chain, Completed)
    IN  /\ found = None <=> missing = {}
        /\ missing # {} => found = Some(chain[Lowest(missing)])
        /\ out.mode # "start" =>
              /\ out.result = "complete" <=> missing = {}
              /\ missing # {} => /\ out.result = "prompt"
                                 /\ out.subtask = Some(chain[Lowest(missing)])

\* the ledger holds the last id of a chain and not its first, and the first
\* subtask was handed out
C27_Witness ==
    LET chain == decompose_task(tasks[1])
    IN  /\ Len(chain) >= 3
        /\ InList(chain[Len(chain)].id, Completed)
        /\ ~InList(chain[1].id, Completed)
        /\ out.mode = "last"
        /\ out.subtask = Some(chain[1])

\* ------------------------------------------------------------------------
\* Properties of runs of sequential invocations
\* ------------------------------------------------------------------------
\* the position of a subtask in a chain that holds it
Position(chain, s) == CHOOSE k \in 1..Len(chain) : chain[k] = s

\* the subtask handed out last is the one the ledger records, and the
\* ledger holds exactly the ids of the subtasks before it, in chain order
OnTrack ==
    /\ out.result = "prompt"
    /\ Loaded.last_subtask_id = Some(out.subtask[1].id)
    /\ Completed = SubSeq(Ids(out.subtasks), 1, Position(out.subtasks, out.subtask[1]) - 1)

\* C28: progress under an affirming oracle. From an empty ledger and the
\* first subtask of a selected task, every --next invocation that finds the
\* proposed subtask affirmed hands out the following subtask of the chain,
\* with the ledger holding the ids before it, and the --next after the
\* last subtask reports the task complete with the whole chain completed.
C28_AffirmedProgress ==
    [][(OnTrack /\ Affirmed /\ out'.mode = "next" /\ out' # out) =>
          LET chain == out.subtasks
              k == Position(chain, out.subtask[1])
          IN  /\ Completed' = SubSeq(Ids(chain), 1, k)
              /\ IF k = Len(chain)
                 THEN out'.result = "complete"
                 ELSE /\ out'.result = "prompt"
                      /\ out'.subtask = Some(chain[k + 1])]_vars

\* the ids of the chain that are in completed are those of its first stages
PrefixOf(chain, completed) ==
    \A k \in 1..Len(chain) :
        InList(chain[k].id, completed) => \A j \in 1..k : InList(chain[j].id, completed)

\* C29: completion follows chain order. After every invocation, for every
\* task of the backlog the ids of its chain present in completedSubtasks
\* are a prefix of the chain, and every id that entered completedSubtasks
\* was lastSubtaskId, the subtask handed out, in the ledger before.
C29_CompletionInOrder ==
    [][/\ \A i \in 1..Len(tasks) : PrefixOf(Chains[i], Completed')
       /\ \A n \in 1..Len(Completed') :
             ~InList(Completed'[n], Completed) => Loaded.last_subtask_id = Some(Completed'[n])]_vars

\* the pointers of a ledger state agree: the subtask is one of the chain of
\* the task that last_task_id resolves to, and the agent is its agent
PointersAgree(state) ==
    state.last_subtask_id # None =>
       /\ state.last_task_id # None
       /\ LET task == FindTask(tasks, state.last_task_id[1])
          IN  /\ task # None
              /\ \E k \in 1..Len(decompose_task(task[1])) :
                    /\ decompose_task(task[1])[k].id = state.last_subtask_id[1]
                    /\ state.last_agent = Some(decompose_task(task[1])[k].agent)

\* C30: ledger pointer consistency. In every ledger persisted by an
\* invocation, a set lastSubtaskId comes with a set lastTaskId, is the id
\* of a subtask of the chain of that task, and lastAgent is the agent of
\* that subtask; lastTaskId becomes set without lastSubtaskId only in an
\* interactive invocation, as the task inferred from the commit history.
C30_PointerConsistency ==
    [][/\ PointersAgree(Loaded')
       /\ (Loaded.last_task_id = None /\ Loaded'.last_task_id # None
              /\ Loaded'.last_subtask_id = None) =>
             /\ out'.mode = "interactive"
             /\ Loaded'.last_task_id = infer_last_task_from_commits(tasks)]_vars

\* ------------------------------------------------------------------------
\* Properties of concurrent invocations
\* ------------------------------------------------------------------------
\* C23: unlocked ledger, last writer wins. Every write of the ledger file
\* by one of two concurrent invocations leaves in it exactly the in-memory
\* state of the writer: the completedSubtasks the writer held before the
\* write, which it read when it started, plus the id it appends itself in
\* this write, whatever the file held just before the write.
C23_LastWriterWins ==
    [][ledger' # ledger =>
          \/ /\ out'.mode = "interactive"
             /\ running' = running
             /\ ledger' = JsonFile(Dumps(out'.state))
          \/ \E p \in Procs :
                /\ running'[p] # running[p]
                /\ ledger' = JsonFile(Dumps(running'[p].mem))
                /\ Completed' = running[p].mem.completed_subtasks
                                   \o (IF running[p].pc = "loaded"
                                       THEN running'[p].appended ELSE <<>>)]_vars

\* both invocations have ended, one of them appended an id and persisted
\* it, and the ledger file does not hold that id
C23_Witness ==
    /\ \A p \in Procs : running[p].pc = "done"
    /\ \E p \in Procs :
          /\ running[p].appended # None
          /\ ~InList(running[p].appended[1], Completed)

====
